---- MODULE Spec2Model ----
(***************************************************************************)
(* Verification orchestration of verifiedpixel                             *)
(* (server/vpp/verifiedpixel/ingest_task.py): the verify_ingest sweep, the *)
(* per-item task graph (synchronous provider branches, the two-phase       *)
(* incandescent chain, the join and finalize_verification) and the patches *)
(* the tasks make to the ingest item and to the verification record.       *)
(***************************************************************************)
EXTENDS Integers, Sequences, FiniteSets, TLC

\* ------------------------------------------------------------------ bounds
\* Number of items in the ingest store.
NumItems == 2

\* Number of verify_ingest invocations explored.
MaxSweeps == 2

\* Number of items of the initial store that have an "original" rendition,
\* which is the number of task graphs that can be running at the same time.
MaxOriginals == 1

Items == 1..NumItems

\* ------------------------------------------------------- program constants
\* max_retries of append_api_results_to_item.
ApiMaxRetries == 3

\* max_retries of append_incandescent_results_to_item.
SubmitMaxRetries == 3

\* max_retries of append_incandescent_results_to_item_callback.
CallbackMaxRetries == 20

\* The registered synchronous providers.
API_GETTERS == {"izitru", "tineye"}

\* ------------------------------------------------------------------ values
\* A key that is not in a document.
Absent == [absent |-> TRUE]

\* Python's None.
Null == [null |-> TRUE]

Num(n) == [num |-> n]

\* A string stored as a value.
Str(s) == [str |-> s]

\* A dict of pages by normalized URL, stored as a value.
Matches(by_url) == [matches |-> by_url]

\* The id of a verification record.
Ref(vid) == [ref |-> vid]

\* repr(e) of an APIGracefulException.
ReprOfException == "APIGracefulException()"

\* {"status": "error", "message": repr(e)}
ErrorResult == [status |-> "error", message |-> ReprOfException]

\* The sources incandescent reports pages from.
Sources == {"google", "bing"}

SourceKey(source) == "incandescent_" \o source

\* The keys the engine writes under an item's verification field and in a
\* verification record.
ResultKeys == API_GETTERS \cup {SourceKey(s) : s \in Sources} \cup {"status", "message"}

VerificationKeys == {"results"} \cup ResultKeys

\* ------------------------------------------------------------------- state
VARIABLES
    ingest,                \* the ingest store: item id -> item document
    verification_results,  \* the verification records, by id (index)
    archive,               \* items fetched into the "Verified Images" desk
    sweep,                 \* the running verify_ingest invocation
    sweeps,                \* number of verify_ingest invocations so far
    tasks,                 \* the task graph submitted for each record
    overlap                \* a verify_ingest invocation running alongside sweep

vars == <<ingest, verification_results, archive, sweep, sweeps, tasks, overlap>>

\* An ingest item; "renditions" holds the names of its renditions.
ItemKinds ==
    { [type |-> "picture", renditions |-> {"original", "thumbnail"}],
      [type |-> "picture", renditions |-> {"thumbnail"}],
      [type |-> "text", renditions |-> {}] }

NewItem(kind) ==
    [present |-> TRUE, type |-> kind.type, slugline |-> "file",
     renditions |-> kind.renditions,
     verification |-> [k \in VerificationKeys |-> Absent]]

\* post([{}]): an empty verification record.
EmptyRecord == [k \in ResultKeys |-> Absent]

\* lookup 'verification': {'$exists': False}
VerificationExists(item) == \E k \in VerificationKeys : item.verification[k] # Absent

\* The ingest items a sweep's query returns, as ids in store order.
RECURSIVE Unverified(_, _)
Unverified(store, i) ==
    IF i > NumItems THEN <<>>
    ELSE IF store[i].present /\ store[i].type = "picture" /\ ~VerificationExists(store[i])
         THEN <<i>> \o Unverified(store, i + 1)
         ELSE Unverified(store, i + 1)

\* handle_elastic_write_problems_wrapper(f): the storage write is retried
\* by the wrapper until it goes through, and its result returned.
handle_elastic_write_problems_wrapper(result) == result

\* ingest.patch(item_id, {'verification.<key>': value, ...}): a patch by
\* key; the keys outside the domain of fields keep their values.
PatchItemMissesOtherKeys(store, item_id, fields) ==
    [store EXCEPT ![item_id].verification =
        [k \in VerificationKeys |-> IF k \in DOMAIN fields THEN fields[k] ELSE Absent]]

\* The document replaced by the fields given, the other fields lost.
PatchItemReplacesDocument(store, item_id, fields) ==
    [store EXCEPT ![item_id] =
        [present |-> TRUE, type |-> "", slugline |-> "", renditions |-> {},
         verification |->
            [k \in VerificationKeys |-> IF k \in DOMAIN fields THEN fields[k] ELSE Absent]]]

PatchItem(store, item_id, fields) ==
    IF ~store[item_id].present THEN store
    ELSE [store EXCEPT ![item_id].verification =
            [k \in VerificationKeys |->
                IF k \in DOMAIN fields THEN fields[k] ELSE @[k]]]

\* verification_results.patch(verification_id, {key: value, ...})
PatchRecordMissesOtherKeys(records, verification_id, fields) ==
    [records EXCEPT ![verification_id] =
        [k \in ResultKeys |-> IF k \in DOMAIN fields THEN fields[k] ELSE Absent]]

PatchRecord(records, verification_id, fields) ==
    [records EXCEPT ![verification_id] =
        [k \in ResultKeys |-> IF k \in DOMAIN fields THEN fields[k] ELSE @[k]]]

\* get_original_image(item): TRUE when the item has an "original"
\* rendition, FALSE when ImageNotFoundException is raised.
get_original_image(item) ==
    \E k \in item.renditions : k = "original"

\* --------------------------------------------------------------- the tasks
\* A task: its state ("queued" to run or to run again, "waiting" for the
\* task it is chained to, "succeeded" once it returned, "failed" once it
\* raised), self.request.retries, and what its latest run met.  The retry
\* count of a finished task of the incandescent chain is not kept.
QueuedTask == [state |-> "queued", retries |-> 0, last |-> "none"]

NoTask == [state |-> "none", retries |-> 0, last |-> "none"]

\* The record of a verification id for which no task graph was submitted;
\* n is the number of the sweep that created the record.
NoGraph(item_id, n) ==
    [item |-> item_id, submitted |-> FALSE, sweep |-> n, raw_results |-> {},
     api |-> [a \in API_GETTERS |-> NoTask],
     wait |-> "none", submit |-> NoTask, get_data |-> [none |-> TRUE],
     callback |-> NoTask, finalize |-> "none"]

\* chord(group(chord([append_api_results_to_item...], wait_for_results),
\*             append_incandescent_results_to_item | ..._callback),
\*       finalize_verification).delay()
NewGraph(item_id, n) ==
    [item |-> item_id, submitted |-> TRUE, sweep |-> n, raw_results |-> {},
     api |-> [a \in API_GETTERS |-> QueuedTask],
     wait |-> "waiting", submit |-> QueuedTask, get_data |-> [none |-> TRUE],
     callback |-> [state |-> "waiting", retries |-> 0, last |-> "none"],
     finalize |-> "waiting"]

IdleSweep ==
    [pc |-> "idle", query |-> <<>>, cursor |-> <<>>, desk_found |-> FALSE,
     verification_id |-> 0]

Init ==
    /\ ingest \in [Items -> {NewItem(kind) : kind \in ItemKinds}]
    /\ Cardinality({i \in Items : get_original_image(ingest[i])}) <= MaxOriginals
    /\ verification_results = <<>>
    /\ archive = {}
    /\ sweep = IdleSweep
    /\ sweeps = 0
    /\ tasks = <<>>
    /\ overlap = IdleSweep

\* ------------------------------------------------------------ verify_ingest
\* Lines 324-329: desk['_id'] of a desk that was not found raises, and the
\* exception is raised again to the caller; otherwise the loop is entered.
DeskLookupSwallowsException(desk_found) == "loop"

DeskLookup(desk_found) == IF desk_found THEN "loop" ELSE "raised"

\* Lines 316-329: the query and the desk lookup.  An invocation starts when
\* the one before it has ended: the sweeps of this specification do not
\* overlap, while the tasks of the graphs they submitted run alongside them.
StartSweep ==
    /\ sweep.pc \in {"idle", "done", "returned", "raised"}
    /\ sweeps < MaxSweeps
    /\ sweeps' = sweeps + 1
    /\ \E desk_found \in BOOLEAN :
         sweep' = [pc |-> DeskLookup(desk_found),
                   query |-> Unverified(ingest, 1),
                   cursor |-> Unverified(ingest, 1),
                   desk_found |-> desk_found,
                   verification_id |-> 0]
    /\ UNCHANGED <<ingest, verification_results, archive, tasks, overlap>>

\* Lines 330-333: the next item of the cursor, and its new record.
SweepPost ==
    /\ sweep.pc = "loop"
    /\ sweep.cursor # <<>>
    /\ verification_results' =
         handle_elastic_write_problems_wrapper(Append(verification_results, EmptyRecord))
    /\ tasks' = Append(tasks, NoGraph(Head(sweep.cursor), sweeps))
    /\ sweep' = [sweep EXCEPT !.pc = "patch",
                              !.verification_id = Len(verification_results) + 1]
    /\ UNCHANGED <<ingest, archive, sweeps, overlap>>

\* The loop going on to the image without the reference having been patched.
SweepPatchNotIssued ==
    /\ sweep.pc = "patch"
    /\ sweep' = [sweep EXCEPT !.pc = "image"]
    /\ UNCHANGED <<ingest, verification_results, archive, sweeps, tasks, overlap>>

\* Lines 334-339: the item's verification.results is set to the record id.
SweepPatch ==
    /\ sweep.pc = "patch"
    /\ ingest' = handle_elastic_write_problems_wrapper(
                    PatchItem(ingest, Head(sweep.cursor),
                              [k \in {"results"} |-> Ref(sweep.verification_id)]))
    /\ sweep' = [sweep EXCEPT !.pc = "image"]
    /\ UNCHANGED <<verification_results, archive, sweeps, tasks, overlap>>

\* Lines 344-347: ImageNotFoundException makes verify_ingest return.
SweepImageNotFound ==
    /\ sweep.pc = "image"
    /\ ~get_original_image(ingest[Head(sweep.cursor)])
    /\ sweep' = [sweep EXCEPT !.pc = "returned"]
    /\ UNCHANGED <<ingest, verification_results, archive, sweeps, tasks, overlap>>

\* Lines 344-391: the task graph of the item is built and submitted.
SweepDispatch ==
    /\ sweep.pc = "image"
    /\ get_original_image(ingest[Head(sweep.cursor)])
    /\ tasks' = [tasks EXCEPT ![sweep.verification_id] =
                    NewGraph(Head(sweep.cursor), sweeps)]
    /\ sweep' = [sweep EXCEPT !.pc = "loop", !.cursor = Tail(sweep.cursor)]
    /\ UNCHANGED <<ingest, verification_results, archive, sweeps, overlap>>

\* Line 330: the cursor is exhausted and verify_ingest returns.
SweepEnd ==
    /\ sweep.pc = "loop"
    /\ sweep.cursor = <<>>
    /\ sweep' = [sweep EXCEPT !.pc = "done"]
    /\ UNCHANGED <<ingest, verification_results, archive, sweeps, tasks, overlap>>

verify_ingest ==
    \/ StartSweep
    \/ SweepPost
    \/ SweepPatch
    \/ SweepImageNotFound
    \/ SweepDispatch
    \/ SweepEnd

\* ------------------------------------- verify_ingest, a second invocation
\* verify_ingest is a task like the others: a second invocation can start
\* while the first one is between its query and the end of its loop.  The
\* steps are those of the first, on the second invocation's own locals;
\* its records carry the sweep number 0.
OverlapStart ==
    /\ overlap.pc = "idle"
    /\ \E desk_found \in BOOLEAN :
         overlap' = [pc |-> DeskLookup(desk_found),
                     query |-> Unverified(ingest, 1),
                     cursor |-> Unverified(ingest, 1),
                     desk_found |-> desk_found,
                     verification_id |-> 0]
    /\ UNCHANGED <<ingest, verification_results, archive, sweep, sweeps, tasks>>

\* Lines 330-333.
OverlapPost ==
    /\ overlap.pc = "loop"
    /\ overlap.cursor # <<>>
    /\ verification_results' =
         handle_elastic_write_problems_wrapper(Append(verification_results, EmptyRecord))
    /\ tasks' = Append(tasks, NoGraph(Head(overlap.cursor), 0))
    /\ overlap' = [overlap EXCEPT !.pc = "patch",
                                  !.verification_id = Len(verification_results) + 1]
    /\ UNCHANGED <<ingest, archive, sweep, sweeps>>

\* Lines 334-339.
OverlapPatch ==
    /\ overlap.pc = "patch"
    /\ ingest' = handle_elastic_write_problems_wrapper(
                    PatchItem(ingest, Head(overlap.cursor),
                              [k \in {"results"} |-> Ref(overlap.verification_id)]))
    /\ overlap' = [overlap EXCEPT !.pc = "image"]
    /\ UNCHANGED <<verification_results, archive, sweep, sweeps, tasks>>

\* Lines 344-347.
OverlapImageNotFound ==
    /\ overlap.pc = "image"
    /\ ~get_original_image(ingest[Head(overlap.cursor)])
    /\ overlap' = [overlap EXCEPT !.pc = "returned"]
    /\ UNCHANGED <<ingest, verification_results, archive, sweep, sweeps, tasks>>

\* Lines 344-391.
OverlapDispatch ==
    /\ overlap.pc = "image"
    /\ get_original_image(ingest[Head(overlap.cursor)])
    /\ tasks' = [tasks EXCEPT ![overlap.verification_id] =
                    NewGraph(Head(overlap.cursor), 0)]
    /\ overlap' = [overlap EXCEPT !.pc = "loop", !.cursor = Tail(overlap.cursor)]
    /\ UNCHANGED <<ingest, verification_results, archive, sweep, sweeps>>

\* Line 330.
OverlapEnd ==
    /\ overlap.pc = "loop"
    /\ overlap.cursor = <<>>
    /\ overlap' = [overlap EXCEPT !.pc = "done"]
    /\ UNCHANGED <<ingest, verification_results, archive, sweep, sweeps, tasks>>

verify_ingest_overlapping ==
    \/ OverlapStart
    \/ OverlapPost
    \/ OverlapPatch
    \/ OverlapImageNotFound
    \/ OverlapDispatch
    \/ OverlapEnd

\* ------------------------------------------------------ provider adapters
\* What the izitru endpoint can answer to the upload.
IzitruVerdicts == {5}

IzitruResponses ==
    {[kind |-> "verdict", verdict |-> v] : v \in IzitruVerdicts}
        \cup {[kind |-> "non_200"], [kind |-> "no_verdict"], [kind |-> "transport_error"]}

\* What the outcome of a getter is: a returned {'total', 'results'}, an
\* APIGracefulException, or another exception.
Return(total, results) == [kind |-> "return", total |-> total, results |-> results]

Graceful == [kind |-> "graceful"]

Raise == [kind |-> "raise"]

get_izitru_results(response) ==
    CASE response.kind = "transport_error" -> Raise
      [] response.kind = "non_200" -> Graceful
      [] response.kind = "no_verdict" -> Graceful
      [] OTHER -> Return(Num(response.verdict), [verdict |-> response.verdict])

\* What the TinEye client can answer to search_data.
TineyeTotals == {7}

TineyeResponses ==
    {[kind |-> "results", total_results |-> n] : n \in TineyeTotals}
        \cup {[kind |-> "api_error", code |-> 400], [kind |-> "api_error", code |-> 500],
              [kind |-> "key_error", key |-> "code"], [kind |-> "key_error", key |-> "other"],
              [kind |-> "no_total_results"]}

\* Code 400 treated as the other API errors are.
get_tineye_results_retrying_400(response) ==
    CASE response.kind = "api_error" -> Graceful
      [] response.kind = "key_error" ->
            IF response.key = "code" THEN Graceful ELSE Raise
      [] response.kind = "no_total_results" -> Graceful
      [] OTHER -> Return(Num(response.total_results),
                         [total_results |-> response.total_results])

get_tineye_results(response) ==
    CASE response.kind = "api_error" ->
            IF response.code = 400 THEN Return(Null, ErrorResult) ELSE Graceful
      [] response.kind = "key_error" ->
            IF response.key = "code" THEN Graceful ELSE Raise
      [] response.kind = "no_total_results" -> Graceful
      [] OTHER -> Return(Num(response.total_results),
                         [total_results |-> response.total_results])

Responses(api_name) ==
    IF api_name = "izitru" THEN IzitruResponses ELSE TineyeResponses

\* get_api_getter(api_name)(*args)
get_api_getter(api_name, response) ==
    IF api_name = "izitru" THEN get_izitru_results(response)
    ELSE get_tineye_results(response)

\* ---------------------------------------------- append_api_results_to_item
\* Line 172: the branch retries while its retry count is below max_retries.
MayRetryOnceMore(retries, max_retries) == retries <= max_retries

MayRetry(retries, max_retries) == retries < max_retries

\* Lines 192-203: the two patches of a finished synchronous branch.
RecordApiResultItemOnly(vid, api_name, results_number, verification_result) ==
    /\ ingest' = handle_elastic_write_problems_wrapper(
                    PatchItem(ingest, tasks[vid].item,
                              [k \in {api_name} |-> results_number]))
    /\ verification_results' = verification_results

RecordApiResult(vid, api_name, results_number, verification_result) ==
    /\ ingest' = handle_elastic_write_problems_wrapper(
                    PatchItem(ingest, tasks[vid].item,
                              [k \in {api_name} |-> results_number]))
    /\ verification_results' = handle_elastic_write_problems_wrapper(
                    PatchRecord(verification_results, vid,
                                [k \in {api_name} |-> verification_result]))

append_api_results_to_item(vid, api_name) ==
    /\ tasks[vid].api[api_name].state = "queued"
    /\ \E response \in Responses(api_name) :
         LET task == tasks[vid].api[api_name]
             results_object == get_api_getter(api_name, response)
         IN  CASE results_object.kind = "raise" ->
                    /\ tasks' = [tasks EXCEPT ![vid].api[api_name] =
                                    [task EXCEPT !.state = "failed", !.last = "raise"]]
                    /\ UNCHANGED <<ingest, verification_results>>
               [] results_object.kind = "graceful" /\ MayRetry(task.retries, ApiMaxRetries) ->
                    /\ tasks' = [tasks EXCEPT ![vid].api[api_name] =
                                    [task EXCEPT !.retries = @ + 1, !.last = "graceful"]]
                    /\ UNCHANGED <<ingest, verification_results>>
               [] results_object.kind = "graceful" /\ ~MayRetry(task.retries, ApiMaxRetries) ->
                    /\ tasks' = [tasks EXCEPT ![vid].api[api_name] =
                                    [task EXCEPT !.state = "succeeded", !.last = "exhausted"]]
                    /\ RecordApiResult(vid, api_name, Null, ErrorResult)
               [] OTHER ->
                    /\ tasks' = [tasks EXCEPT ![vid].api[api_name] =
                                    [task EXCEPT !.state = "succeeded",
                                                 !.last = IF results_object.total = Null
                                                          THEN "rejected" ELSE "ok"]]
                    /\ RecordApiResult(vid, api_name, results_object.total,
                                       results_object.results)
    /\ UNCHANGED <<archive, sweep, sweeps, overlap>>

\* ----------------------------------------------------------- wait_for_results
\* The body of the inner chord: it runs once every synchronous branch has
\* returned.
wait_for_results(vid) ==
    /\ tasks[vid].wait = "waiting"
    /\ \A a \in API_GETTERS : tasks[vid].api[a].state = "succeeded"
    /\ tasks' = [tasks EXCEPT ![vid].wait = "done"]
    /\ UNCHANGED <<ingest, verification_results, archive, sweep, sweeps, overlap>>

\* ------------------------------------- append_incandescent_results_to_item
\* The correlation data the submit phase hands to the resolve phase.
Token == [request_id |-> "token"]

\* get_incandescent_results(href): the token, or an APIGracefulException.
get_incandescent_results(response) ==
    IF response = "accepted" THEN Return(Null, Token) ELSE Graceful

append_incandescent_results_to_item(vid) ==
    /\ tasks[vid].submit.state = "queued"
    /\ \E response \in {"accepted", "failed"} :
         LET task == tasks[vid].submit
             got == get_incandescent_results(response)
         IN  CASE got.kind = "graceful" /\ MayRetry(task.retries, SubmitMaxRetries) ->
                    tasks' = [tasks EXCEPT ![vid].submit =
                                 [task EXCEPT !.retries = @ + 1, !.last = "graceful"]]
               [] got.kind = "graceful" /\ ~MayRetry(task.retries, SubmitMaxRetries) ->
                    tasks' = [tasks EXCEPT
                                 ![vid].submit = [state |-> "succeeded", retries |-> 0,
                                                  last |-> "exhausted"],
                                 ![vid].get_data = ErrorResult,
                                 ![vid].callback.state = "queued"]
               [] OTHER ->
                    tasks' = [tasks EXCEPT
                                 ![vid].submit = [state |-> "succeeded", retries |-> 0,
                                                  last |-> "ok"],
                                 ![vid].get_data = got.results,
                                 ![vid].callback.state = "queued"]
    /\ UNCHANGED <<ingest, verification_results, archive, sweep, sweeps, overlap>>

\* ---------------------------- append_incandescent_results_to_item_callback
\* A character of a URL.
Dot == "."

\* The raw results of incandescent: the pages found, each with the URL it
\* was found under (a sequence of characters), its number and its source.
Page(url, page_n, source) == [url |-> url, page_n |-> page_n, source |-> source]

RawResults ==
    { {},
      {Page(<<"a", Dot, "b">>, 1, "google")},
      {Page(<<"a", Dot, "b">>, 1, "google"), Page(<<"a", "_", "b">>, 2, "google"),
       Page(<<"c", Dot, "d">>, 1, "bing"), Page(<<"c", Dot, "d">>, 2, "google")} }

\* get_incandescent_results_callback(get_data): the raw results, or an
\* APIGracefulException while they are not ready.
CallbackResponses ==
    {[ready |-> FALSE]} \cup {[ready |-> TRUE, raw_results |-> r] : r \in RawResults}

get_incandescent_results_callback(response) ==
    IF ~response.ready THEN Graceful ELSE Return(Null, response.raw_results)

\* url.replace('.', '_')
ReplaceDots(url) == [n \in DOMAIN url |-> IF url[n] = Dot THEN "_" ELSE url[n]]

\* Lines 260-269: the pages grouped by source and by normalized URL.
GroupPages(raw_results) ==
    [source \in {SourceKey(page.source) : page \in raw_results} |->
        Matches([key \in {ReplaceDots(page.url) :
                    page \in {q \in raw_results : SourceKey(q.source) = source}} |->
            {page.page_n : page \in {q \in raw_results :
                                        /\ SourceKey(q.source) = source
                                        /\ ReplaceDots(q.url) = key}}])]

\* len(results) of a value of verification_result: the number of keys of
\* a dict of pages, the number of characters of a string.
LenOfDict(results) == Cardinality(DOMAIN results.matches)

LenOfString(results) == Len(results)

\* Lines 272-284: the two patches of the resolve phase; lengths[source] is
\* len(verification_result[source]).
RecordIncandescentResult(vid, verification_result, lengths) ==
    /\ ingest' = handle_elastic_write_problems_wrapper(
                    PatchItem(ingest, tasks[vid].item,
                              [source \in DOMAIN verification_result |->
                                  Num(lengths[source])]))
    /\ verification_results' = handle_elastic_write_problems_wrapper(
                    PatchRecord(verification_results, vid, verification_result))

\* The error result of the submit phase, as the values the record stores.
StoredStrings(get_data) == [k \in DOMAIN get_data |-> Str(get_data[k])]

\* Every result of the submit phase taken for a token to poll with.
IsTerminalResultNever(get_data) == FALSE

\* Line 241: 'status' in get_data.
IsTerminalResult(get_data) == "status" \in DOMAIN get_data

append_incandescent_results_to_item_callback(vid) ==
    /\ tasks[vid].callback.state = "queued"
    /\ LET task == tasks[vid].callback
           get_data == tasks[vid].get_data
       IN  IF IsTerminalResult(get_data)
           THEN /\ tasks' = [tasks EXCEPT ![vid].callback =
                                [state |-> "succeeded", retries |-> 0, last |-> "passed_on"]]
                /\ RecordIncandescentResult(vid, StoredStrings(get_data),
                        [k \in DOMAIN get_data |-> LenOfString(get_data[k])])
           ELSE \E response \in CallbackResponses :
                  LET got == get_incandescent_results_callback(response)
                  IN  CASE got.kind = "graceful" /\ MayRetry(task.retries, CallbackMaxRetries) ->
                             /\ tasks' = [tasks EXCEPT ![vid].callback =
                                             [task EXCEPT !.retries = @ + 1,
                                                          !.last = "graceful"]]
                             /\ UNCHANGED <<ingest, verification_results>>
                        [] got.kind = "graceful" /\ ~MayRetry(task.retries, CallbackMaxRetries) ->
                             \* line 255 sets the error result, line 261 then
                             \* reads raw_results, which was never bound
                             /\ tasks' = [tasks EXCEPT ![vid].callback =
                                             [state |-> "failed", retries |-> 0,
                                              last |-> "exhausted"]]
                             /\ UNCHANGED <<ingest, verification_results>>
                        [] OTHER ->
                             /\ tasks' = [tasks EXCEPT
                                             ![vid].callback =
                                                 [state |-> "succeeded", retries |-> 0,
                                                  last |-> "ok"],
                                             ![vid].raw_results = got.results]
                             /\ LET verification_result == GroupPages(got.results)
                                IN  RecordIncandescentResult(vid, verification_result,
                                        [source \in DOMAIN verification_result |->
                                            LenOfDict(verification_result[source])])
    /\ UNCHANGED <<archive, sweep, sweeps, overlap>>

\* ------------------------------------------------------ finalize_verification
\* The body of the outer chord: it runs once wait_for_results and the
\* incandescent chain have returned.
JoinComplete(graph) ==
    /\ graph.wait = "done"
    /\ graph.callback.state = "succeeded"

\* fetch([{'_id': item_id, 'desk': desk_id}]): the item as it is in the
\* ingest store is copied to the desk.
Fetch(fetched, store, item_id) ==
    IF store[item_id].present
    THEN fetched \cup {[item |-> item_id, verification |-> store[item_id].verification]}
    ELSE fetched

\* The task passing to the delete without the fetch having been issued.
FinalizeFetchNotIssued(vid) ==
    /\ tasks[vid].finalize = "waiting"
    /\ JoinComplete(tasks[vid])
    /\ tasks' = [tasks EXCEPT ![vid].finalize = "fetched"]
    /\ UNCHANGED <<ingest, verification_results, archive, sweep, sweeps, overlap>>

\* Lines 291-296.
FinalizeFetch(vid) ==
    /\ tasks[vid].finalize = "waiting"
    /\ JoinComplete(tasks[vid])
    /\ archive' = handle_elastic_write_problems_wrapper(
                     Fetch(archive, ingest, tasks[vid].item))
    /\ tasks' = [tasks EXCEPT ![vid].finalize = "fetched"]
    /\ UNCHANGED <<ingest, verification_results, sweep, sweeps, overlap>>

\* Lines 297-302.
FinalizeDelete(vid) ==
    /\ tasks[vid].finalize = "fetched"
    /\ ingest' = handle_elastic_write_problems_wrapper(
                    [ingest EXCEPT ![tasks[vid].item].present = FALSE])
    /\ tasks' = [tasks EXCEPT ![vid].finalize = "done"]
    /\ UNCHANGED <<verification_results, archive, sweep, sweeps, overlap>>

finalize_verification(vid) ==
    \/ FinalizeFetch(vid)
    \/ FinalizeDelete(vid)

Next ==
    \/ verify_ingest
    \/ \E vid \in DOMAIN tasks : \E a \in API_GETTERS : append_api_results_to_item(vid, a)
    \/ \E vid \in DOMAIN tasks : wait_for_results(vid)
    \/ \E vid \in DOMAIN tasks : append_incandescent_results_to_item(vid)
    \/ \E vid \in DOMAIN tasks : append_incandescent_results_to_item_callback(vid)
    \/ \E vid \in DOMAIN tasks : finalize_verification(vid)

Spec == Init /\ [][Next]_vars

\* A worker runs every task that is queued: each task of a submitted graph
\* that can run does run in the end.
FairSpec ==
    /\ Spec
    /\ WF_vars(\E vid \in DOMAIN tasks : \E a \in API_GETTERS :
                  append_api_results_to_item(vid, a))
    /\ WF_vars(\E vid \in DOMAIN tasks : wait_for_results(vid))
    /\ WF_vars(\E vid \in DOMAIN tasks : append_incandescent_results_to_item(vid))
    /\ WF_vars(\E vid \in DOMAIN tasks : append_incandescent_results_to_item_callback(vid))
    /\ WF_vars(\E vid \in DOMAIN tasks : finalize_verification(vid))

\* The providers answer every call of the graph with a result, at the first
\* attempt, and incandescent finds no page: the runs of a graph in which
\* nothing fails and nothing is retried.
Untroubled(vid) ==
    /\ \A a \in API_GETTERS : tasks'[vid].api[a].last \in {"none", "ok"}
    /\ tasks'[vid].submit.last \in {"none", "ok"}
    /\ tasks'[vid].callback.last \in {"none", "ok"}
    /\ tasks'[vid].raw_results = {}

\* Two invocations of verify_ingest whose executions overlap, over the runs
\* in which no provider fails: a part of the behaviours of the program, so
\* that what is reached here is reached by the program.
NextOverlap ==
    \/ verify_ingest
    \/ verify_ingest_overlapping
    \/ \E vid \in DOMAIN tasks : \E a \in API_GETTERS :
          append_api_results_to_item(vid, a) /\ Untroubled(vid)
    \/ \E vid \in DOMAIN tasks : wait_for_results(vid)
    \/ \E vid \in DOMAIN tasks : append_incandescent_results_to_item(vid) /\ Untroubled(vid)
    \/ \E vid \in DOMAIN tasks :
          append_incandescent_results_to_item_callback(vid) /\ Untroubled(vid)
    \/ \E vid \in DOMAIN tasks : finalize_verification(vid)

SpecOverlap == Init /\ [][NextOverlap]_vars

\* ------------------------------------------------------------ the task graph
\* The verification ids for which a task graph was submitted.
Graphs == {vid \in DOMAIN tasks : tasks[vid].submitted}

\* The verification records created for an item.
RecordsOf(item_id) == {vid \in DOMAIN tasks : tasks[vid].item = item_id}

\* The task graph has nothing left to run.
AtRest(graph) ==
    /\ \A a \in API_GETTERS : graph.api[a].state # "queued"
    /\ graph.submit.state # "queued"
    /\ graph.callback.state # "queued"
    /\ ~(graph.wait = "waiting" /\ \A a \in API_GETTERS : graph.api[a].state = "succeeded")
    /\ ~(graph.finalize = "waiting" /\ JoinComplete(graph))
    /\ graph.finalize # "fetched"

\* Every branch has ended, by a task that returned or raised.
AllBranchesEnded(graph) ==
    /\ \A a \in API_GETTERS : graph.api[a].state \in {"succeeded", "failed"}
    /\ graph.callback.state \in {"succeeded", "failed"}

\* Every branch has ended with a provider result or with its retries
\* exhausted (and not with an exception of the provider adapter).
AllBranchesTerminal(graph) ==
    /\ \A a \in API_GETTERS : graph.api[a].last \in {"ok", "rejected", "exhausted"}
    /\ graph.callback.last \in {"ok", "passed_on", "exhausted"}

\* The number of runs of finalize_verification for the graph.
FinalizeRuns(graph) == IF graph.finalize \in {"fetched", "done"} THEN 1 ELSE 0

IsError(value) == "status" \in DOMAIN value /\ value.status = "error"

\* The verification field of the item as stored: in the ingest store, and
\* in the desk once fetched.
Stored(item_id) ==
    (IF ingest[item_id].present THEN {ingest[item_id].verification} ELSE {})
        \cup {f.verification : f \in {g \in archive : g.item = item_id}}

\* -------------------------------------------------------------------- claims
\* C1: for every dispatched item finalize_verification runs exactly once,
\* and only after every branch of the item's task graph has reached a
\* terminal state (success or exhausted retries), whatever the order in
\* which the branches finish.  Stated on the graphs that have nothing left
\* to run: finalize has run there once, and it never runs before the
\* branches have ended.
C1_FinalizeExactlyOnceAfterAllBranches ==
    \A vid \in Graphs :
        /\ FinalizeRuns(tasks[vid]) = 1 => AllBranchesEnded(tasks[vid])
        /\ (AllBranchesTerminal(tasks[vid]) /\ AtRest(tasks[vid]))
              => FinalizeRuns(tasks[vid]) = 1

\* C2: for every item with an "original" rendition and every combination of
\* provider outcomes (every provider failing included), one sweep creates
\* exactly one verification record for the item and the item reaches the
\* Finalizer: once its graph has nothing left to run the item is in the
\* destination desk and no longer in the ingest store.
C2_OneRecordAndItemFinalized ==
    \A vid \in Graphs :
        /\ Cardinality(RecordsOf(tasks[vid].item)) = 1
        /\ (AllBranchesTerminal(tasks[vid]) /\ AtRest(tasks[vid]))
              => /\ \E f \in archive : f.item = tasks[vid].item
                 /\ ~ingest[tasks[vid].item].present

\* C3: when the submit phase returned a token and every resolve attempt
\* found the result not ready until max_retries was exhausted, the resolve
\* phase has written a terminal error entry to the verification record and
\* the task has completed without raising, so that the join can complete.
C3_ResolveExhaustionRecordsError ==
    \A vid \in Graphs :
        (tasks[vid].callback.last = "exhausted"
            /\ tasks[vid].callback.state \in {"succeeded", "failed"})
        => /\ tasks[vid].callback.state = "succeeded"
           /\ \E k \in ResultKeys :
                verification_results[vid][k] \in {ErrorResult, Str("error")}

\* C4: after a sweep, a picture item that lacks an "original" rendition
\* still has no verification field and no verification record was created
\* for it.
C4_NoOriginalLeavesItemUntouched ==
    sweep.pc \in {"done", "returned", "raised"} =>
        \A i \in Items :
            (ingest[i].present /\ ingest[i].type = "picture"
                /\ ~get_original_image(ingest[i]))
            => /\ ~VerificationExists(ingest[i])
               /\ RecordsOf(i) = {}

\* C5: an ImageNotFound failure on one item aborts that item only: when a
\* sweep has ended, every item its query returned that has an "original"
\* rendition had its task graph submitted by that sweep.
C5_OtherItemsStillDispatched ==
    sweep.pc \in {"done", "returned"} =>
        \A n \in DOMAIN sweep.query :
            get_original_image(ingest[sweep.query[n]])
            => \E vid \in Graphs : /\ tasks[vid].item = sweep.query[n]
                                   /\ tasks[vid].sweep = sweeps

\* The record entry and the item-level count a synchronous branch writes
\* when its provider call succeeds.
HoldsSuccessOf(api_name, vid) ==
    \E response \in Responses(api_name) :
        LET results_object == get_api_getter(api_name, response)
        IN  /\ results_object.kind = "return"
            /\ results_object.total # Null
            /\ verification_results[vid][api_name] = results_object.results
            /\ \A v \in Stored(tasks[vid].item) : v[api_name] = results_object.total

\* The record entry and the item-level count of a synchronous branch that
\* recorded an error.
HoldsErrorOf(api_name, vid) ==
    /\ IsError(verification_results[vid][api_name])
    /\ \A v \in Stored(tasks[vid].item) : v[api_name] = Null

\* Nothing is stored for a synchronous branch.
HoldsNothingOf(api_name, vid) ==
    /\ verification_results[vid][api_name] = Absent
    /\ \A v \in Stored(tasks[vid].item) : v[api_name] = Absent

\* C6: when the destination desk is not found, verify_ingest raises and the
\* sweep dispatches nothing: it creates no verification record (so that no
\* item is patched with one) and submits no task graph.
C6_MissingDeskDispatchesNothing ==
    (sweep.pc # "idle" /\ ~sweep.desk_found) =>
        /\ sweep.pc = "raised"
        /\ \A vid \in DOMAIN tasks : tasks[vid].sweep # sweeps
        /\ \A i \in Items : \A vid \in DOMAIN tasks :
              ingest[i].verification["results"] = Ref(vid) => tasks[vid].sweep # sweeps

C6_Witness ==
    sweep.pc = "raised" /\ sweep.query # <<>> /\ sweeps = 1

\* C7: a synchronous branch whose provider call failed transiently k times,
\* k < max_retries, and then succeeded has stored the success payload under
\* the provider's name in the record and the provider's match count on the
\* item, and the record holds no error entry for the provider.
C7_SuccessAfterTransientFailures ==
    \A vid \in Graphs : \A a \in API_GETTERS :
        (tasks[vid].api[a].state = "succeeded" /\ tasks[vid].api[a].last = "ok"
            /\ tasks[vid].api[a].retries < ApiMaxRetries)
        => /\ HoldsSuccessOf(a, vid)
           /\ ~IsError(verification_results[vid][a])

C7_Witness ==
    \E vid \in Graphs : \E a \in API_GETTERS :
        /\ tasks[vid].api[a].state = "succeeded"
        /\ tasks[vid].api[a].last = "ok"
        /\ tasks[vid].api[a].retries = ApiMaxRetries - 1

\* C8: a synchronous branch whose provider call failed transiently more
\* than max_retries times has stored an entry with status "error" for the
\* provider and a null item-level count, and what the other providers'
\* branches of the item stored (or did not store yet) is as they left it.
C8_ExhaustedBranchRecordsError ==
    \A vid \in Graphs : \A a \in API_GETTERS :
        tasks[vid].api[a].last = "exhausted"
        => /\ tasks[vid].api[a].retries = ApiMaxRetries
           /\ tasks[vid].api[a].state = "succeeded"
           /\ HoldsErrorOf(a, vid)
           /\ \A b \in API_GETTERS \ {a} :
                 CASE tasks[vid].api[b].last = "ok" -> HoldsSuccessOf(b, vid)
                   [] tasks[vid].api[b].last \in {"exhausted", "rejected"} ->
                        HoldsErrorOf(b, vid)
                   [] OTHER -> HoldsNothingOf(b, vid)

C8_Witness ==
    \E vid \in Graphs : \E a, b \in API_GETTERS :
        /\ tasks[vid].api[a].last = "exhausted"
        /\ tasks[vid].api[b].last = "ok"
        /\ tasks[vid].finalize = "done"

\* The keys the incandescent chain may write.
IncandescentKeys == ResultKeys \ API_GETTERS

\* What the resolve phase stored for a key, given the verification_result
\* it wrote and the length it wrote for each of its keys.
HoldsIncandescent(vid, verification_result, lengths) ==
    \A k \in IncandescentKeys :
        /\ verification_results[vid][k] =
              (IF k \in DOMAIN verification_result THEN verification_result[k] ELSE Absent)
        /\ \A v \in Stored(tasks[vid].item) :
              v[k] = (IF k \in DOMAIN verification_result THEN Num(lengths[k]) ELSE Absent)

\* C9: the writes of the dispatcher and of the branches are patches by key
\* and the keys of different branches are disjoint: in every interleaving
\* the item and the record hold, for each branch that has written, the
\* values that branch wrote for its keys, the keys of the branches that have
\* not written are absent, and the item's verification.results still refers
\* to the record.
C9_NoBranchWriteLost ==
    \A vid \in Graphs :
        /\ \A v \in Stored(tasks[vid].item) : v["results"] = Ref(vid)
        /\ \A a \in API_GETTERS :
              CASE tasks[vid].api[a].last = "ok" -> HoldsSuccessOf(a, vid)
                [] tasks[vid].api[a].last \in {"exhausted", "rejected"} ->
                     HoldsErrorOf(a, vid)
                [] OTHER -> HoldsNothingOf(a, vid)
        /\ CASE tasks[vid].callback.last = "ok" ->
                  LET verification_result == GroupPages(tasks[vid].raw_results)
                  IN  HoldsIncandescent(vid, verification_result,
                          [k \in DOMAIN verification_result |->
                              LenOfDict(verification_result[k])])
             [] tasks[vid].callback.last = "passed_on" ->
                  HoldsIncandescent(vid, StoredStrings(ErrorResult),
                      [k \in DOMAIN ErrorResult |-> LenOfString(ErrorResult[k])])
             [] OTHER -> HoldsIncandescent(vid, <<>>, <<>>)

C9_Witness ==
    \E vid \in Graphs :
        /\ tasks[vid].api["izitru"].last = "ok"
        /\ tasks[vid].api["tineye"].last = "exhausted"
        /\ tasks[vid].callback.last = "ok"
        /\ Cardinality(DOMAIN GroupPages(tasks[vid].raw_results)) = 2
        /\ tasks[vid].finalize = "done"

\* C10: every provider that ended in failure, the asynchronous provider
\* whose submit phase exhausted its retries included, shows as an "error"
\* entry in the verification record and as a null or absent count on the
\* item: no non-null item-level value is written for a failed provider.
C10_FailedProviderHasNoCount ==
    \A vid \in Graphs :
        /\ \A a \in API_GETTERS :
              tasks[vid].api[a].last \in {"exhausted", "rejected"} => HoldsErrorOf(a, vid)
        /\ (tasks[vid].submit.last = "exhausted" /\ tasks[vid].callback.state = "succeeded")
              => /\ \E k \in IncandescentKeys :
                      verification_results[vid][k] \in {ErrorResult, Str("error")}
                 /\ \A v \in Stored(tasks[vid].item) : \A k \in IncandescentKeys :
                      v[k] \in {Absent, Null}

\* C11: whatever the provider answers (a transport error, a status other
\* than 2xx, a response without the expected fields, a lookup error on any
\* key), a provider branch retries or records a terminal result: no branch
\* task ends with an uncaught exception, so that the join of the item can
\* still complete.
C11_BranchNeverRaises ==
    \A vid \in Graphs : \A a \in API_GETTERS :
        /\ tasks[vid].api[a].state \in {"queued", "succeeded"}
        /\ tasks[vid].api[a].last # "raise"

\* C12: until the Finalizer deletes the item, every write the engine makes
\* to an ingest item (by verify_ingest, by a synchronous branch and by the
\* resolve phase, on success and on error paths) changes keys under the
\* item's verification field only: the other fields of the item keep their
\* values in every step.
C12_OnlyVerificationFieldsChange ==
    [][\A i \in Items :
          (ingest[i].present /\ ingest'[i].present)
          => /\ ingest'[i].type = ingest[i].type
             /\ ingest'[i].slugline = ingest[i].slugline
             /\ ingest'[i].renditions = ingest[i].renditions]_vars

C12_Witness ==
    \E vid \in Graphs :
        LET item == ingest[tasks[vid].item]
        IN  /\ item.present
            /\ item.verification["results"] = Ref(vid)
            /\ item.verification["izitru"] = Null
            /\ item.verification["tineye"] # Absent
            /\ item.verification["tineye"] # Null
            /\ item.verification["status"] # Absent
            /\ item.renditions = {"original", "thumbnail"}

\* C13: finalize_verification issues the fetch of the item into the
\* destination desk first and the delete from the ingest store second: in
\* every step that leaves an item absent from the ingest store, the fetch of
\* that item into the desk was issued in an earlier step, so no reachable
\* state has an item deleted without its fetch before it.
C13_FetchBeforeDelete ==
    [][\A i \in Items :
          ~ingest'[i].present => \E f \in archive : f.item = i]_vars

C13_Witness ==
    \E vid \in Graphs :
        /\ tasks[vid].finalize = "done"
        /\ ~ingest[tasks[vid].item].present
        /\ \E f \in archive : f.item = tasks[vid].item

\* C14: for each dispatched item the verification record is created and the
\* item's verification.results reference is patched before any branch of the
\* item is submitted, and the engine never deletes a record: in the step that
\* submits a graph the record exists, the item refers to it and no branch has
\* run; the one verification id of the graph is that of an existing record in
\* every state the branches patch in; and the set of records only grows.
C14_RecordAndReferenceBeforeBranches ==
    /\ [](\A vid \in Graphs : vid \in DOMAIN verification_results)
    /\ [][/\ DOMAIN verification_results \subseteq DOMAIN verification_results'
          /\ \A vid \in DOMAIN tasks' :
                (tasks'[vid].submitted /\ ~(vid \in Graphs))
                => /\ vid \in DOMAIN verification_results
                   /\ ingest[tasks'[vid].item].verification["results"] = Ref(vid)
                   /\ \A a \in API_GETTERS : tasks'[vid].api[a] = QueuedTask
                   /\ tasks'[vid].submit = QueuedTask]_vars

C14_Witness ==
    \E vid \in Graphs :
        /\ vid \in DOMAIN verification_results
        /\ ingest[tasks[vid].item].present
        /\ ingest[tasks[vid].item].verification["results"] = Ref(vid)
        /\ \A a \in API_GETTERS : verification_results[vid][a] # Absent
        /\ verification_results[vid][SourceKey("google")] # Absent

\* The retrying tasks of a graph, with the max_retries of each.
BranchTasks(graph) ==
    {<<graph.api[a], ApiMaxRetries>> : a \in API_GETTERS}
        \cup {<<graph.submit, SubmitMaxRetries>>, <<graph.callback, CallbackMaxRetries>>}

\* One step of a retrying task, from before to after.
RetryStepOk(before, after, max_retries) ==
    /\ (after.last = "graceful" /\ after # before)
       => /\ before.retries < max_retries
          /\ after.retries = before.retries + 1
          /\ after.state = "queued"
    /\ (after.last = "exhausted" /\ after # before)
       => /\ before.retries = max_retries
          /\ before.state = "queued"
          /\ after.state # "queued"

BranchesEnded(vid) ==
    /\ vid \in Graphs
    /\ \A a \in API_GETTERS : tasks[vid].api[a].state \in {"succeeded", "failed"}
    /\ tasks[vid].submit.state \in {"succeeded", "failed"}
    /\ tasks[vid].callback.state \in {"succeeded", "failed"}

\* C15: a branch reschedules its provider call after a graceful failure
\* exactly when its retry count is below max_retries and never records a
\* terminal error earlier: a task's retry count never exceeds its
\* max_retries (at most 3 + 1 = 4 provider calls for a synchronous branch
\* and the submit phase, 20 + 1 = 21 for the resolve phase), a retry is taken
\* only below max_retries and the exhausted ending only at max_retries, and
\* every task of a submitted graph ends after finitely many attempts,
\* whatever the providers answer.
C15_RetryBelowMaxAndTermination ==
    /\ [](\A vid \in Graphs : \A t \in BranchTasks(tasks[vid]) : t[1].retries <= t[2])
    /\ [][\A vid \in Graphs :
            /\ \A a \in API_GETTERS :
                  RetryStepOk(tasks[vid].api[a], tasks'[vid].api[a], ApiMaxRetries)
            /\ RetryStepOk(tasks[vid].submit, tasks'[vid].submit, SubmitMaxRetries)
            /\ RetryStepOk(tasks[vid].callback, tasks'[vid].callback, CallbackMaxRetries)]_vars
    /\ <>[](\A vid \in Graphs : BranchesEnded(vid))

C15_Witness ==
    \E vid \in Graphs :
        /\ BranchesEnded(vid)
        /\ \E a \in API_GETTERS :
              /\ tasks[vid].api[a].last = "exhausted"
              /\ tasks[vid].api[a].retries = ApiMaxRetries
        /\ tasks[vid].callback.last = "exhausted"

\* C16: a malformed-input error of a provider (TinEye API error with code
\* 400) is terminal and not retried: the adapter returns an error result
\* with a null count for it instead of asking for a retry, the branch that
\* received it ends in that same run with its retry count as it was
\* (whatever is left of its retries), and the record holds the error entry
\* for tineye and the item a null count.
C16_BadRequestIsTerminal ==
    /\ [](/\ \A response \in TineyeResponses :
                (response.kind = "api_error" /\ response.code = 400)
                => get_tineye_results(response) = Return(Null, ErrorResult)
          /\ \A vid \in Graphs :
                tasks[vid].api["tineye"].last = "rejected"
                => /\ tasks[vid].api["tineye"].state = "succeeded"
                   /\ HoldsErrorOf("tineye", vid))
    /\ [][\A vid \in Graphs :
            (/\ tasks'[vid].api["tineye"].last = "rejected"
             /\ tasks[vid].api["tineye"].last # "rejected")
            => /\ tasks[vid].api["tineye"].state = "queued"
               /\ tasks'[vid].api["tineye"].state = "succeeded"
               /\ tasks'[vid].api["tineye"].retries = tasks[vid].api["tineye"].retries
               /\ verification_results'[vid]["tineye"] = ErrorResult
               /\ ingest'[tasks[vid].item].verification["tineye"] = Null]_vars

C16_Witness ==
    \E vid \in Graphs :
        /\ tasks[vid].api["tineye"].last = "rejected"
        /\ tasks[vid].api["tineye"].retries = 0
        /\ verification_results[vid]["tineye"] = ErrorResult
        /\ ingest[tasks[vid].item].present
        /\ ingest[tasks[vid].item].verification["tineye"] = Null

\* C17: when the submit phase exhausts its retries it returns a terminal
\* error result instead of a token, and the chained resolve phase then makes
\* no poll of the provider: its one run passes straight to the storage
\* writes and ends, with no retry taken and no raw results fetched.
C17_ExhaustedSubmitSkipsPoll ==
    /\ [](\A vid \in Graphs :
            tasks[vid].submit.last = "exhausted"
            => /\ tasks[vid].submit.state = "succeeded"
               /\ tasks[vid].get_data = ErrorResult
               /\ tasks[vid].raw_results = {}
               /\ \/ tasks[vid].callback = QueuedTask
                  \/ tasks[vid].callback =
                        [state |-> "succeeded", retries |-> 0, last |-> "passed_on"])
    /\ [][\A vid \in Graphs :
            (/\ tasks[vid].submit.last = "exhausted"
             /\ tasks'[vid].callback # tasks[vid].callback)
            => /\ tasks[vid].callback = QueuedTask
               /\ tasks'[vid].callback.state = "succeeded"
               /\ tasks'[vid].callback.last = "passed_on"
               /\ \A k \in {"status", "message"} :
                     verification_results'[vid][k] # Absent]_vars

C17_Witness ==
    \E vid \in Graphs :
        /\ tasks[vid].submit.last = "exhausted"
        /\ tasks[vid].get_data = ErrorResult
        /\ tasks[vid].callback.state = "succeeded"
        /\ tasks[vid].callback.last = "passed_on"
        /\ verification_results[vid]["status"] # Absent

\* The graphs submitted for an item, and those whose finalize_verification
\* has run.
GraphsOf(item_id) == {vid \in Graphs : tasks[vid].item = item_id}

FinalizedOf(item_id) ==
    {vid \in GraphsOf(item_id) : tasks[vid].finalize \in {"fetched", "done"}}

\* C18: across the invocations of verify_ingest, two of them overlapping
\* included, each ingest item with an "original" rendition is dispatched at
\* most once: it gets at most one verification record, at most one task
\* graph and at most one run of finalize_verification.
C18_DispatchedAtMostOnce ==
    \A i \in Items :
        get_original_image(ingest[i])
        => /\ Cardinality(RecordsOf(i)) <= 1
           /\ Cardinality(GraphsOf(i)) <= 1
           /\ Cardinality(FinalizedOf(i)) <= 1
====
